---------------------------- MODULE Spec2Model ----------------------------
(***************************************************************************)
(* A model of the SIP calling demo server (src/index.js) and of the page   *)
(* script it serves.                                                        *)
(*                                                                          *)
(*   Spec         the server process: startup, environment validation,     *)
(*                listen, and the Express middleware/route chain applied   *)
(*                to each request.                                          *)
(*   PageSpec     the script of the page served by GET /: the three        *)
(*                buttons, init(), the Device event handlers and the       *)
(*                5-second fallback timer.                                  *)
(*   PageFairSpec PageSpec with weak fairness of the timer callback.        *)
(***************************************************************************)
EXTENDS Naturals, Sequences, FiniteSets

VARIABLES
    env,                \* process.env as read at lines 31-37 (+ CALLER_IDENTITY)
    pc,                 \* position of the server's top-level script
    exitCode,           \* argument of process.exit, 0 while running
    checks,             \* how many times the validation at line 40 has run
    log,                \* the exchanges served so far: <<[req, sign, resp]>>
    initBtnDisabled,    \* initBtn.disabled
    callBtnDisabled,    \* callBtn.disabled
    hangupBtnDisabled,  \* hangupBtn.disabled
    status,             \* status.textContent and status.className
    callBtnText,        \* callBtn.textContent
    initBtnHidden,      \* initBtn.style.display = 'none'
    device,             \* let device   (line 90)
    connection,         \* let connection (line 91)
    fetching,           \* init() invocations awaiting fetch('/token')
    timer,              \* the setTimeout of line 210
    deviceIsReady,      \* what the SDK answers for device.isReady
    sdkCall,            \* the SDK's call, as the page's environment
    initRuns,           \* how many times init() has been entered
    devicesCreated,     \* how many times new Device(...) has returned
    readySeen,          \* whether the 'ready' handler has ever run
    connectOnNull       \* whether a Call click has called connect on null

serverVars == <<env, pc, exitCode, checks, log>>
pageVars == <<initBtnDisabled, callBtnDisabled, hangupBtnDisabled, status,
              callBtnText, initBtnHidden,
              device, connection, fetching, timer, deviceIsReady, sdkCall,
              initRuns, devicesCreated, readySeen, connectOnNull>>
vars == <<serverVars, pageVars>>

(***************************************************************************)
(* Bounds of the model.                                                     *)
(***************************************************************************)
MaxRequests == 2
MaxInitRuns == 2

(***************************************************************************)
(* The environment.                                                         *)
(***************************************************************************)
Undefined == "<undefined>"

\* !x in JavaScript, for x a string or undefined.
Falsy(v) == v = Undefined \/ v = ""

EnvSpace ==
    [TWILIO_ACCOUNT_ID : {Undefined, "", "AC1"},
     TWILIO_API_KEY    : {Undefined, "", "SK1"},
     TWILIO_API_SECRET : {Undefined, "", "s3cr3t"},
     APP_SID           : {Undefined, "", "APXXX"},
     SIP_URI           : {Undefined, "", "sip:alice@example.com", "sip:bob@example.com"},
     CALLER_IDENTITY   : {Undefined, "alice"}]

\* The validation without its last operand.
MissingRequiredNoSip(e) ==
    \/ Falsy(e.TWILIO_ACCOUNT_ID)
    \/ Falsy(e.TWILIO_API_KEY)
    \/ Falsy(e.TWILIO_API_SECRET)
    \/ Falsy(e.APP_SID)

\* if (!TWILIO_ACCOUNT_ID || !TWILIO_API_KEY || !TWILIO_API_SECRET || !APP_SID || !SIP_URI)
MissingRequired(e) ==
    \/ Falsy(e.TWILIO_ACCOUNT_ID)
    \/ Falsy(e.TWILIO_API_KEY)
    \/ Falsy(e.TWILIO_API_SECRET)
    \/ Falsy(e.APP_SID)
    \/ Falsy(e.SIP_URI)

(***************************************************************************)
(* Requests.                                                                *)
(***************************************************************************)
WebhookPath == "/webhooks/twilio/cmb5v3a6b0001pofthcngifxq/initiate"
StatusPath == "/webhooks/twilio/cmb5v3a6b0001pofthcngifxq/status"
SdkFile == "/twilio-sdk/dist/twilio.min.js"

Paths == {"/", "/token", WebhookPath, StatusPath, "/health", SdkFile,
          "/webhooks/voice-webhook", "/unknown/path"}

\* A POST body: none, a form with a CallStatus field, a form without one, or
\* a form larger than the parser's limit.
PostBodies == {"none", "form:CallStatus", "form:other", "form:oversize"}

Requests ==
    [method : {"GET", "HEAD"}, path : Paths, body : {"none"}]
        \cup [method : {"POST"}, path : Paths, body : PostBodies]

\* What token.toJwt() does: returns, or throws an Error with one of these messages.
SignErrors == {"secretOrPrivateKey must have a value", "invalid key length"}
SignOutcomes == {"ok"} \cup SignErrors


(***************************************************************************)
(* The middleware and route chain, in registration order.                   *)
(***************************************************************************)
\* express.urlencoded({ extended: true }): a form body over the default limit
\* is refused with 413 and the chain is left through the error handler.
UrlencodedRejects(req) == req.body = "form:oversize"

ParserError ==
    [status |-> 413, by |-> "urlencoded", type |-> "text/html",
     body |-> [text |-> "PayloadTooLargeError"]]

\* app.use('/twilio-sdk', express.static(...)): GET and HEAD of an existing
\* file are answered; everything else falls through.
StaticServes(req) == req.method \in {"GET", "HEAD"} /\ req.path = SdkFile

StaticFile(req) ==
    [status |-> 200, by |-> "static", type |-> "application/javascript",
     body |-> [file |-> req.path]]

\* app.get(path, ...) also answers HEAD; app.post(path, ...) answers POST only.
RouteMatches(method, path, req) ==
    /\ req.path = path
    /\ \/ req.method = method
       \/ method = "GET" /\ req.method = "HEAD"

\* app.get('/'): the page, parameterised by SIP_URI only.
PageHandler(e) ==
    [status |-> 200, by |-> "page", type |-> "text/html",
     body |-> [target |-> e.SIP_URI]]

\* new VoiceGrant({ outgoingApplicationSid: APP_SID, incomingAllow: false })
VoiceGrant(e) ==
    [grant |-> "voice", outgoingApplicationSid |-> e.APP_SID, incomingAllow |-> FALSE]

\* new AccessToken(account, key, secret, { identity }) with the grant added.
AccessToken(e, identity) ==
    [sub |-> e.TWILIO_ACCOUNT_ID, iss |-> e.TWILIO_API_KEY,
     signedWith |-> e.TWILIO_API_SECRET, identity |-> identity,
     grants |-> <<VoiceGrant(e)>>]

\* app.get('/token'): identity is the literal 'sipuser'; a throw is answered
\* 500 with error.message.
TokenHandler(e, sign) ==
    IF sign = "ok"
    THEN [status |-> 200, by |-> "token", type |-> "application/json",
          body |-> [token |-> AccessToken(e, "sipuser")]]
    ELSE [status |-> 500, by |-> "token", type |-> "application/json",
          body |-> [error |-> sign]]

\* app.post(WebhookPath): <Response><Dial callerId="sipuser"><Sip>SIP_URI</Sip></Dial></Response>
WebhookHandler(e) ==
    [status |-> 200, by |-> "webhook", type |-> "text/xml",
     body |-> [response |-> <<[verb |-> "Dial", callerId |-> "sipuser",
                               nouns |-> <<[noun |-> "Sip", uri |-> e.SIP_URI]>>]>>]]

\* A status handler that insists on a CallStatus field.
StatusHandlerValidating(req) ==
    IF req.body = "form:CallStatus"
    THEN [status |-> 200, by |-> "status", type |-> "text/html",
          body |-> [text |-> "OK"]]
    ELSE [status |-> 400, by |-> "status", type |-> "text/html",
          body |-> [text |-> "Bad Request"]]

\* app.post(StatusPath): logs req.body, res.status(200).send('OK').
StatusHandler(req) ==
    [status |-> 200, by |-> "status", type |-> "text/html",
     body |-> [text |-> "OK"]]

\* app.all('*')
CatchAll ==
    [status |-> 404, by |-> "catch-all", type |-> "text/html",
     body |-> [text |-> "Route not found - check console for debugging"]]

\* Whether the request is answered by the /token handler.
ReachesToken(req) ==
    /\ ~UrlencodedRejects(req)
    /\ ~StaticServes(req)
    /\ ~RouteMatches("GET", "/", req)
    /\ RouteMatches("GET", "/token", req)

SignChoices(req) == IF ReachesToken(req) THEN SignOutcomes ELSE {"none"}

Handle(e, req, sign) ==
    IF UrlencodedRejects(req) THEN ParserError
    ELSE IF StaticServes(req) THEN StaticFile(req)
    ELSE IF RouteMatches("GET", "/", req) THEN PageHandler(e)
    ELSE IF RouteMatches("GET", "/token", req) THEN TokenHandler(e, sign)
    ELSE IF RouteMatches("POST", WebhookPath, req) THEN WebhookHandler(e)
    ELSE IF RouteMatches("POST", StatusPath, req) THEN StatusHandler(req)
    ELSE CatchAll

(***************************************************************************)
(* The page script's state once the SDK has loaded (lines 73-75, 90-112).   *)
(***************************************************************************)
\* updateStatus(msg, type = 'info')
UpdateStatus(msg, type) == status' = [text |-> msg, class |-> type]

PageInit ==
    /\ initBtnDisabled = FALSE
    /\ callBtnDisabled = TRUE
    /\ hangupBtnDisabled = TRUE
    /\ status = [text |-> "Click Initialize to start", class |-> "info"]
    /\ callBtnText = "Call SIP"
    /\ initBtnHidden = FALSE
    /\ device = "null"
    /\ connection = "null"
    /\ fetching = 0
    /\ timer = "unset"
    /\ deviceIsReady = FALSE
    /\ sdkCall = "none"
    /\ initRuns = 0
    /\ devicesCreated = 0
    /\ readySeen = FALSE
    /\ connectOnNull = FALSE

(***************************************************************************)
(* The server process.                                                      *)
(***************************************************************************)
ServerInit ==
    /\ env \in EnvSpace
    /\ pc = "start"
    /\ exitCode = 0
    /\ checks = 0
    /\ log = <<>>

Init == ServerInit /\ PageInit

\* Lines 31-43: the check, and process.exit(1) when it fails.
Validate ==
    /\ pc = "start"
    /\ checks' = checks + 1
    /\ IF MissingRequired(env)
       THEN pc' = "exited" /\ exitCode' = 1
       ELSE pc' = "configured" /\ exitCode' = exitCode
    /\ UNCHANGED <<env, log>>
    /\ UNCHANGED pageVars

\* Lines 48-317: the routes are registered and app.listen(port) is called.
Listen ==
    /\ pc = "configured"
    /\ pc' = "listening"
    /\ UNCHANGED <<env, exitCode, checks, log>>
    /\ UNCHANGED pageVars

\* One request through the chain.
Serve ==
    /\ pc = "listening"
    /\ Len(log) < MaxRequests
    /\ \E req \in Requests : \E sign \in SignChoices(req) :
          log' = Append(log, [req |-> req, sign |-> sign,
                              resp |-> Handle(env, req, sign)])
    /\ UNCHANGED <<env, pc, exitCode, checks>>
    /\ UNCHANGED pageVars

Next == Validate \/ Listen \/ Serve

Spec == Init /\ [][Next]_vars

(***************************************************************************)
(* The page script.  The SDK's events are the script's environment: any of  *)
(* them may arrive, in any order, once the handlers are registered.         *)
(***************************************************************************)
\* A configuration that passes the check: the page exists only on a
\* listening server.
ServedEnv ==
    [TWILIO_ACCOUNT_ID |-> "AC1", TWILIO_API_KEY |-> "SK1",
     TWILIO_API_SECRET |-> "s3cr3t", APP_SID |-> "APXXX",
     SIP_URI |-> "sip:alice@example.com", CALLER_IDENTITY |-> Undefined]

PageSpecInit ==
    /\ env = ServedEnv
    /\ pc = "listening"
    /\ exitCode = 0
    /\ checks = 1
    /\ log = <<>>
    /\ PageInit

\* The click handler without initBtn.disabled = true.
InitClickKeepsEnabled ==
    /\ ~initBtnDisabled
    /\ initRuns < MaxInitRuns
    /\ initBtnDisabled' = FALSE
    /\ initRuns' = initRuns + 1
    /\ fetching' = fetching + 1
    /\ UpdateStatus("Step 2: Getting token...", "info")
    /\ UNCHANGED <<callBtnDisabled, hangupBtnDisabled, callBtnText,
                   initBtnHidden, device, connection, timer, deviceIsReady,
                   sdkCall, devicesCreated, readySeen, connectOnNull>>
    /\ UNCHANGED serverVars

\* initBtn click (lines 114-118) up to the await of fetch('/token') in init().
\* A disabled button dispatches no click.
InitClick ==
    /\ ~initBtnDisabled
    /\ initRuns < MaxInitRuns
    /\ initBtnDisabled' = TRUE
    /\ initRuns' = initRuns + 1
    /\ fetching' = fetching + 1
    /\ UpdateStatus("Step 2: Getting token...", "info")
    /\ UNCHANGED <<callBtnDisabled, hangupBtnDisabled, callBtnText,
                   initBtnHidden, device, connection, timer, deviceIsReady,
                   sdkCall, devicesCreated, readySeen, connectOnNull>>
    /\ UNCHANGED serverVars

\* init(), lines 125-131 and 220-224: the fetch rejects, the response is not
\* ok, or new Device throws; the catch block reports it.
InitFails ==
    /\ fetching > 0
    /\ fetching' = fetching - 1
    /\ UpdateStatus("Failed", "error")
    /\ UNCHANGED <<initBtnDisabled, callBtnDisabled, hangupBtnDisabled,
                   callBtnText, initBtnHidden, device, connection, timer,
                   deviceIsReady, sdkCall, initRuns, devicesCreated,
                   readySeen, connectOnNull>>
    /\ UNCHANGED serverVars

\* init(), lines 133-218: the Device is created, the handlers are registered
\* and the timer is set.
InitCreatesDevice ==
    /\ fetching > 0
    /\ fetching' = fetching - 1
    /\ UpdateStatus("Step 3: Initializing device...", "info")
    /\ device' = "device"
    /\ devicesCreated' = devicesCreated + 1
    /\ timer' = "pending"
    /\ UNCHANGED <<initBtnDisabled, callBtnDisabled, hangupBtnDisabled,
                   callBtnText, initBtnHidden, connection, deviceIsReady,
                   sdkCall, initRuns, readySeen, connectOnNull>>
    /\ UNCHANGED serverVars

\* device.on('ready'), lines 145-150.  The SDK may or may not expose the
\* isReady property that the timer reads.
DeviceReady ==
    /\ device # "null"
    /\ UpdateStatus("Ready to call!", "ready")
    /\ callBtnDisabled' = FALSE
    /\ initBtnHidden' = TRUE
    /\ readySeen' = TRUE
    /\ deviceIsReady' \in BOOLEAN
    /\ UNCHANGED <<initBtnDisabled, hangupBtnDisabled, callBtnText, device,
                   connection, fetching, timer, sdkCall, initRuns,
                   devicesCreated, connectOnNull>>
    /\ UNCHANGED serverVars

\* device.on('offline'), lines 159-161: a debug line only.
DeviceOffline ==
    /\ device # "null"
    /\ deviceIsReady' = FALSE
    /\ UNCHANGED <<initBtnDisabled, callBtnDisabled, hangupBtnDisabled,
                   status, callBtnText, initBtnHidden, device, connection,
                   fetching, timer, sdkCall, initRuns, devicesCreated,
                   readySeen, connectOnNull>>
    /\ UNCHANGED serverVars

\* device.on('error'), lines 152-157.
DeviceError ==
    /\ device # "null"
    /\ UpdateStatus("Device error", "error")
    /\ UNCHANGED <<initBtnDisabled, callBtnDisabled, hangupBtnDisabled,
                   callBtnText, initBtnHidden, device, connection, fetching,
                   timer, deviceIsReady, sdkCall, initRuns, devicesCreated,
                   readySeen, connectOnNull>>
    /\ UNCHANGED serverVars

\* device.on('registering'), lines 163-166.
DeviceRegistering ==
    /\ device # "null"
    /\ UpdateStatus("Registering with Twilio...", "info")
    /\ UNCHANGED <<initBtnDisabled, callBtnDisabled, hangupBtnDisabled,
                   callBtnText, initBtnHidden, device, connection, fetching,
                   timer, deviceIsReady, sdkCall, initRuns, devicesCreated,
                   readySeen, connectOnNull>>
    /\ UNCHANGED serverVars

\* device.on('registered'), lines 168-171.
DeviceRegistered ==
    /\ device # "null"
    /\ UpdateStatus("Device registered!", "ready")
    /\ UNCHANGED <<initBtnDisabled, callBtnDisabled, hangupBtnDisabled,
                   callBtnText, initBtnHidden, device, connection, fetching,
                   timer, deviceIsReady, sdkCall, initRuns, devicesCreated,
                   readySeen, connectOnNull>>
    /\ UNCHANGED serverVars

\* device.on('unregistered'), lines 173-176.
DeviceUnregistered ==
    /\ device # "null"
    /\ UpdateStatus("Failed to register - check TwiML App config", "error")
    /\ UNCHANGED <<initBtnDisabled, callBtnDisabled, hangupBtnDisabled,
                   callBtnText, initBtnHidden, device, connection, fetching,
                   timer, deviceIsReady, sdkCall, initRuns, devicesCreated,
                   readySeen, connectOnNull>>
    /\ UNCHANGED serverVars

\* The timer callback with its condition inverted.
TimerFireWhenReady ==
    /\ timer = "pending"
    /\ timer' = "fired"
    /\ IF deviceIsReady
       THEN /\ callBtnDisabled' = FALSE
            /\ callBtnText' = "Try Call Anyway"
            /\ UpdateStatus("Registration failed, but you can try calling", "warning")
       ELSE UNCHANGED <<callBtnDisabled, callBtnText, status>>
    /\ UNCHANGED <<initBtnDisabled, hangupBtnDisabled, initBtnHidden, device,
                   connection, fetching, deviceIsReady, sdkCall, initRuns,
                   devicesCreated, readySeen, connectOnNull>>
    /\ UNCHANGED serverVars

\* The setTimeout callback, lines 210-218.
TimerFire ==
    /\ timer = "pending"
    /\ timer' = "fired"
    /\ IF ~deviceIsReady
       THEN /\ callBtnDisabled' = FALSE
            /\ callBtnText' = "Try Call Anyway"
            /\ UpdateStatus("Registration failed, but you can try calling", "warning")
       ELSE UNCHANGED <<callBtnDisabled, callBtnText, status>>
    /\ UNCHANGED <<initBtnDisabled, hangupBtnDisabled, initBtnHidden, device,
                   connection, fetching, deviceIsReady, sdkCall, initRuns,
                   devicesCreated, readySeen, connectOnNull>>
    /\ UNCHANGED serverVars

\* callBtn click, lines 227-231: device.connect().  A second connect while a
\* call is in progress starts no second call.
CallClick ==
    /\ ~callBtnDisabled
    /\ UpdateStatus("Calling...", "info")
    /\ IF device = "null"
       THEN connectOnNull' = TRUE /\ sdkCall' = sdkCall
       ELSE /\ connectOnNull' = connectOnNull
            /\ sdkCall' = IF sdkCall = "none" THEN "connecting" ELSE sdkCall
    /\ UNCHANGED <<initBtnDisabled, callBtnDisabled, hangupBtnDisabled,
                   callBtnText, initBtnHidden, device, connection, fetching,
                   timer, deviceIsReady, initRuns, devicesCreated, readySeen>>
    /\ UNCHANGED serverVars

\* The outgoing call ends before it is connected: no handler of the script
\* changes a button.
CallFails ==
    /\ sdkCall = "connecting"
    /\ sdkCall' = "none"
    /\ UNCHANGED <<initBtnDisabled, callBtnDisabled, hangupBtnDisabled,
                   status, callBtnText, initBtnHidden, device, connection,
                   fetching, timer, deviceIsReady, initRuns, devicesCreated,
                   readySeen, connectOnNull>>
    /\ UNCHANGED serverVars

\* device.on('connect'), lines 182-188.
DeviceConnect ==
    /\ sdkCall = "connecting"
    /\ sdkCall' = "open"
    /\ UpdateStatus("Connected!", "ready")
    /\ connection' = "conn"
    /\ callBtnDisabled' = TRUE
    /\ hangupBtnDisabled' = FALSE
    /\ UNCHANGED <<initBtnDisabled, callBtnText, initBtnHidden, device,
                   fetching, timer, deviceIsReady, initRuns, devicesCreated,
                   readySeen, connectOnNull>>
    /\ UNCHANGED serverVars

\* hangupBtn click, lines 233-238: connection.disconnect() when connection is set.
HangupClick ==
    /\ ~hangupBtnDisabled
    /\ sdkCall' = IF connection # "null" /\ sdkCall = "open" THEN "closing" ELSE sdkCall
    /\ UNCHANGED <<initBtnDisabled, callBtnDisabled, hangupBtnDisabled,
                   status, callBtnText, initBtnHidden, device, connection,
                   fetching, timer, deviceIsReady, initRuns, devicesCreated,
                   readySeen, connectOnNull>>
    /\ UNCHANGED serverVars

\* device.on('disconnect'), lines 190-196: the call ends, by either side.
DeviceDisconnect ==
    /\ sdkCall \in {"open", "closing"}
    /\ sdkCall' = "none"
    /\ UpdateStatus("Call ended", "info")
    /\ connection' = "null"
    /\ callBtnDisabled' = FALSE
    /\ hangupBtnDisabled' = TRUE
    /\ UNCHANGED <<initBtnDisabled, callBtnText, initBtnHidden, device,
                   fetching, timer, deviceIsReady, initRuns, devicesCreated,
                   readySeen, connectOnNull>>
    /\ UNCHANGED serverVars

PageNext ==
    \/ InitClick
    \/ InitFails
    \/ InitCreatesDevice
    \/ DeviceReady
    \/ DeviceOffline
    \/ DeviceError
    \/ DeviceRegistering
    \/ DeviceRegistered
    \/ DeviceUnregistered
    \/ TimerFire
    \/ CallClick
    \/ CallFails
    \/ DeviceConnect
    \/ HangupClick
    \/ DeviceDisconnect

PageSpec == PageSpecInit /\ [][PageNext]_vars

\* The timer callback runs once its delay has passed.
PageFairSpec == PageSpec /\ WF_vars(TimerFire)

(***************************************************************************)
(* What the documentation says of the optional settings.                    *)
(***************************************************************************)
\* CALLER_IDENTITY: caller identity for the session (default: sipuser).
DocCallerIdentity(e) ==
    IF Falsy(e.CALLER_IDENTITY) THEN "sipuser" ELSE e.CALLER_IDENTITY

(***************************************************************************)
(* Properties of the server.                                                *)
(***************************************************************************)
RequiredKeys ==
    {"TWILIO_ACCOUNT_ID", "TWILIO_API_KEY", "TWILIO_API_SECRET", "APP_SID", "SIP_URI"}

SomeRequiredAbsent == \E k \in RequiredKeys : env[k] \in {Undefined, ""}

Served == 1..Len(log)

\* C1: when one of the five required settings is absent or empty the process
\* exits with a nonzero code and neither listens nor serves a request; the
\* check runs once, and it has run before the server listens.
C1_NoServiceWithoutConfiguration ==
    /\ (SomeRequiredAbsent /\ pc # "start") => (pc = "exited" /\ exitCode # 0)
    /\ SomeRequiredAbsent => log = <<>>
    /\ pc = "exited" => (SomeRequiredAbsent /\ exitCode # 0 /\ log = <<>>)
    /\ checks <= 1
    /\ pc \in {"configured", "listening"} => checks = 1

C1_Witness_ExitedOnEmptySipUri ==
    /\ pc = "exited"
    /\ exitCode = 1
    /\ env.SIP_URI = ""
    /\ \A k \in RequiredKeys \ {"SIP_URI"} : env[k] \notin {Undefined, ""}

\* C2: every POST to the webhook route that the body parser lets through is
\* answered with a document of exactly one dial directive, whose target is the
\* configured SIP address and whose caller id is the configured caller
\* identity (CALLER_IDENTITY when set, otherwise the default); any two such
\* answers are the same document.
C2_WebhookDialsConfiguredIdentity ==
    \A i \in Served :
        (/\ log[i].req.method = "POST"
         /\ log[i].req.path = WebhookPath
         /\ ~UrlencodedRejects(log[i].req))
        => /\ log[i].resp.by = "webhook"
           /\ Len(log[i].resp.body.response) = 1
           /\ log[i].resp.body.response[1].verb = "Dial"
           /\ Len(log[i].resp.body.response[1].nouns) = 1
           /\ log[i].resp.body.response[1].nouns[1].uri = env.SIP_URI
           /\ log[i].resp.body.response[1].callerId = DocCallerIdentity(env)
           /\ \A j \in Served :
                 (/\ log[j].req.method = "POST"
                  /\ log[j].req.path = WebhookPath
                  /\ ~UrlencodedRejects(log[j].req))
                 => log[j].resp = log[i].resp

\* C3: every successful GET /token returns a token with a single grant, which
\* names the configured application identity and disables inbound calling,
\* and with the configured caller identity (CALLER_IDENTITY when set,
\* otherwise the default) as its identity claim.
C3_TokenCarriesConfiguredIdentity ==
    \A i \in Served :
        (/\ log[i].req.method = "GET"
         /\ log[i].req.path = "/token"
         /\ log[i].resp.status = 200)
        => /\ Len(log[i].resp.body.token.grants) = 1
           /\ log[i].resp.body.token.grants[1].outgoingApplicationSid = env.APP_SID
           /\ log[i].resp.body.token.grants[1].incomingAllow = FALSE
           /\ log[i].resp.body.token.identity = DocCallerIdentity(env)

\* C4: a GET /token whose signing fails is answered 500 with a generic error:
\* the body is the same whatever the cause, and holds neither the key secret
\* nor the text of the exception.
C4_SigningFailureIsGeneric ==
    \A i \in Served :
        (log[i].req.path = "/token" /\ log[i].sign \in SignErrors)
        => /\ log[i].resp.status = 500
           /\ log[i].resp.body.error # env.TWILIO_API_SECRET
           /\ log[i].resp.body.error # log[i].sign
           /\ \A j \in Served :
                 (log[j].req.path = "/token" /\ log[j].sign \in SignErrors)
                 => log[j].resp.body = log[i].resp.body

\* C5: every GET /health is answered 200, by a handler of its own and never
\* by the unmatched-route handler.
C5_HealthAlwaysHealthy ==
    \A i \in Served :
        (log[i].req.method = "GET" /\ log[i].req.path = "/health")
        => /\ log[i].resp.status = 200
           /\ log[i].resp.by # "catch-all"

\* C7, as stated: every POST to the status path is answered 200, whatever
\* its body.
C7_StatusAlwaysAcknowledged ==
    \A i \in Served :
        (log[i].req.method = "POST" /\ log[i].req.path = StatusPath)
        => log[i].resp.status = 200

\* C7, amended: every POST to the status path whose body the form parser
\* accepts is answered 200 "OK" by the status handler, whatever the body and
\* whatever was served before; a body the parser refuses is answered 413 by
\* the parser and does not reach the handler.
C7_StatusAcknowledgedWhenParsed ==
    \A i \in Served :
        (log[i].req.method = "POST" /\ log[i].req.path = StatusPath)
        => IF log[i].req.body = "form:oversize"
           THEN log[i].resp.status = 413 /\ log[i].resp.by = "urlencoded"
           ELSE /\ log[i].resp.status = 200
                /\ log[i].resp.by = "status"
                /\ log[i].resp.body = [text |-> "OK"]

C7_Witness_AcknowledgedAfterFailure ==
    /\ Len(log) = 2
    /\ log[1].resp.status = 500
    /\ log[2].req = [method |-> "POST", path |-> StatusPath, body |-> "form:other"]
    /\ log[2].resp.status = 200

\* The routes the interface lists.
ListedRoute(req) ==
    \/ req.method = "GET" /\ req.path \in {"/", "/token", "/health", SdkFile}
    \/ req.method = "POST" /\ req.path \in {WebhookPath, StatusPath}

\* C8: among the GET and POST requests that the body parser lets through,
\* one that matches no listed route is answered 404, and one that matches a
\* listed route is never answered by the unmatched-route handler.
C8_OnlyUnlistedRoutesAreNotFound ==
    \A i \in Served :
        (log[i].req.method \in {"GET", "POST"} /\ ~UrlencodedRejects(log[i].req))
        => IF ListedRoute(log[i].req)
           THEN log[i].resp.by # "catch-all"
           ELSE log[i].resp.status = 404

(***************************************************************************)
(* Properties of the page script.                                           *)
(***************************************************************************)
\* C6: from the creation of the Device (the timer is set and no 'ready' has
\* arrived yet) the Call button becomes enabled, whether 'ready' then arrives
\* or never does and whatever the registration events.
C6_CallEventuallyEnabled ==
    (device # "null" /\ timer = "pending" /\ ~readySeen) ~> (~callBtnDisabled)

C6_Witness_EnabledByTimerAlone ==
    /\ timer = "fired"
    /\ ~readySeen
    /\ ~callBtnDisabled
    /\ callBtnText = "Try Call Anyway"

\* C9: Call and Hang Up are never both enabled; while a call is connected
\* Call is disabled and Hang Up is enabled; Hang Up is enabled only while the
\* stored connection is non-null.
C9_CallAndHangupExclusive ==
    /\ ~(~callBtnDisabled /\ ~hangupBtnDisabled)
    /\ sdkCall \in {"open", "closing"} => (callBtnDisabled /\ ~hangupBtnDisabled)
    /\ ~hangupBtnDisabled => connection # "null"

\* C10: Call is enabled only once a Device exists, so no Call click calls
\* connect on null; Initialize stays disabled from its first click on, init()
\* runs at most once and at most one Device is created.
C10_OneInitOneDevice ==
    /\ ~callBtnDisabled => device # "null"
    /\ ~connectOnNull
    /\ initRuns >= 1 => initBtnDisabled
    /\ initRuns <= 1
    /\ devicesCreated <= 1

C10_Witness_CallOnCreatedDevice ==
    /\ initRuns = 1
    /\ initBtnDisabled
    /\ devicesCreated = 1
    /\ sdkCall = "connecting"

=============================================================================
